---------------------------- MODULE Spec2Model ----------------------------
(***************************************************************************)
(* Model of the "guess the place" room game engine (src/server.js): the    *)
(* room registry, the socket handlers, the round timers, the scoring and   *)
(* the answer matcher.                                                      *)
(*                                                                          *)
(* Conventions.                                                             *)
(*  - A text is a sequence of one-character strings.                        *)
(*  - A match quality is an integer percentage (1.0 is 100, 0.65 is 65).    *)
(*  - Time is counted in ticks of 1000 ms; a timer holds the ticks left     *)
(*    until it fires, and the room holds the ticks elapsed since            *)
(*    roundStartTime.                                                       *)
(***************************************************************************)
EXTENDS Integers, Sequences, FiniteSets, TLC

NULL == "null"     \* null, for a string-valued field
NoSocket == 0       \* null, for a socket id (socket ids are 1, 2, ...)
NoTimer == 0        \* null, for a timer handle (timer ids are 1, 2, ...)
NoTime == -1        \* null, for roundStartTime
ToRoom == 0         \* the addressee of io.to(roomId).emit

Min2(a, b) == IF a <= b THEN a ELSE b
Max2(a, b) == IF a >= b THEN a ELSE b

(***************************************************************************)
(* MATCHING ENGINE: checkAnswer, levenshtein                                *)
(***************************************************************************)
UpperLetters == <<"A","B","C","D","E","F","G","H","I","J","K","L","M",
                  "N","O","P","Q","R","S","T","U","V","W","X","Y","Z">>
LowerLetters == <<"a","b","c","d","e","f","g","h","i","j","k","l","m",
                  "n","o","p","q","r","s","t","u","v","w","x","y","z">>
Digits == {"0","1","2","3","4","5","6","7","8","9"}
WhiteSpace == {" ", "\t", "\n"}
Vowels == {"a","e","i","o","u"}

Range(f) == {f[i] : i \in DOMAIN f}

\* String.prototype.toLowerCase, one character
toLowerCaseChar(ch) ==
  IF \E i \in 1..26 : UpperLetters[i] = ch
  THEN LowerLetters[CHOOSE i \in 1..26 : UpperLetters[i] = ch]
  ELSE ch

toLowerCase(str) == [i \in 1..Len(str) |-> toLowerCaseChar(str[i])]

\* String.prototype.trim
RECURSIVE trimStart(_)
trimStart(str) ==
  IF str # <<>> /\ Head(str) \in WhiteSpace THEN trimStart(Tail(str)) ELSE str

RECURSIVE trimEnd(_)
trimEnd(str) ==
  IF str # <<>> /\ str[Len(str)] \in WhiteSpace
  THEN trimEnd(SubSeq(str, 1, Len(str) - 1))
  ELSE str

trim(str) == trimEnd(trimStart(str))

\* .replace(/[^a-z0-9\s]/g, '')
IsKept(ch) == ch \in Range(LowerLetters) \/ ch \in Digits \/ ch \in WhiteSpace
stripNonAlnum(str) == SelectSeq(str, IsKept)

\* .replace(/\s+/g, ' ')
RECURSIVE collapseSpaces(_)
collapseSpaces(str) ==
  IF str = <<>> THEN <<>>
  ELSE IF Head(str) \in WhiteSpace
       THEN <<" ">> \o collapseSpaces(trimStart(str))
       ELSE <<Head(str)>> \o collapseSpaces(Tail(str))

\* const normalize = (str) => str.toLowerCase().trim().replace(..).replace(..)
normalize(str) == collapseSpaces(stripNonAlnum(trim(toLowerCase(str))))

\* One row of the dp table of levenshtein: acc holds dp[i][0..j-1]
RECURSIVE levRow(_, _, _, _, _)
levRow(prev, ch, b, j, acc) ==
  IF j > Len(b) THEN acc
  ELSE LET v == IF ch = b[j]
                THEN prev[j]
                ELSE 1 + Min2(prev[j + 1], Min2(acc[j], prev[j]))
       IN  levRow(prev, ch, b, j + 1, Append(acc, v))

\* the rows dp[1..a.length]; every row has b.length + 1 cells
RECURSIVE levRows(_, _, _, _)
levRows(a, b, i, prev) ==
  IF i > Len(a) \/ Len(prev) # Len(b) + 1 THEN prev[Len(b) + 1]
  ELSE levRows(a, b, i + 1, levRow(prev, a[i], b, 1, <<i>>))

\* function levenshtein(a, b)
levenshtein(a, b) == levRows(a, b, 1, [j \in 1..(Len(b) + 1) |-> j - 1])

\* String.prototype.includes
includes(hay, needle) ==
  \E i \in 0..(Len(hay) - Len(needle)) : SubSeq(hay, i + 1, i + Len(needle)) = needle

\* String.prototype.split(' ')
RECURSIVE splitSpace(_, _)
splitSpace(str, cur) ==
  IF str = <<>> THEN <<cur>>
  ELSE IF Head(str) = " "
       THEN <<cur>> \o splitSpace(Tail(str), <<>>)
       ELSE splitSpace(Tail(str), Append(cur, Head(str)))

split(str) == splitSpace(str, <<>>)

\* Array.prototype.join(' ')
RECURSIVE join(_)
join(words) ==
  IF words = <<>> THEN <<>>
  ELSE IF Len(words) = 1 THEN words[1]
       ELSE words[1] \o <<" ">> \o join(Tail(words))

stopWords == { <<"t","h","e">>, <<"o","f">>, <<"a">>, <<"a","n">>, <<"a","t">>,
               <<"i","n">>, <<"o","n">>, <<"l","e">>, <<"l","a">>, <<"e","l">>,
               <<"d","e">>, <<"d","i">>, <<"d","u">> }

IsNotStopWord(w) == w \notin stopWords
IsLongWord(w) == Len(w) > 2
IsKeyWord(w) == Len(w) > 2 /\ w \notin stopWords
IsNotVowel(ch) == ch \notin Vowels

stripStop(str) == join(SelectSeq(split(str), IsNotStopWord))
stripVowels(str) == SelectSeq(str, IsNotVowel)

\* wordDist / wordMax <= 0.3 for some guess word
wordMatches(cw, gWords) ==
  \E k \in 1..Len(gWords) :
     LET wordMax == Max2(Len(gWords[k]), Len(cw))
     IN  wordMax > 0 /\ 10 * levenshtein(gWords[k], cw) <= 3 * wordMax

\* the ladder of checkAnswer below the exact and contains rungs
ladderWords(g, c) ==
  LET gWords == SelectSeq(split(g), IsLongWord)
      cWords == SelectSeq(split(c), IsKeyWord)
      matchedWords == Cardinality({k \in 1..Len(cWords) : wordMatches(cWords[k], gWords)})
  IN  IF Len(cWords) > 0 /\ Len(gWords) > 0 /\ matchedWords >= Len(cWords) THEN 85
      ELSE IF Len(cWords) > 0 /\ Len(gWords) > 0 /\ 10 * matchedWords >= 6 * Len(cWords) THEN 60
      ELSE IF Len(cWords) > 0 /\ Len(gWords) > 0 /\ 10 * matchedWords >= 4 * Len(cWords) THEN 40
      ELSE 0

ladderTail(g, c) ==
  LET gNoVowels == stripVowels(g)
      cNoVowels == stripVowels(c)
      vMax == Max2(Len(gNoVowels), Len(cNoVowels))
  IN  IF ladderWords(g, c) > 0 THEN ladderWords(g, c)
      ELSE IF includes(c, g) /\ 10 * Len(g) >= 4 * Len(c) THEN 40
      ELSE IF /\ Len(gNoVowels) >= 3 /\ Len(cNoVowels) >= 3
              /\ vMax > 0
              /\ 10 * levenshtein(gNoVowels, cNoVowels) <= 2 * vMax THEN 65
      ELSE 0

ladderStripped(g, c) ==
  LET gStripped == stripStop(g)
      cStripped == stripStop(c)
      maxStripped == Max2(Len(gStripped), Len(cStripped))
      dStripped == levenshtein(gStripped, cStripped)
  IN  IF gStripped # <<>> /\ cStripped # <<>> /\ gStripped = cStripped THEN 95
      ELSE IF gStripped # <<>> /\ cStripped # <<>> /\ 100 * dStripped <= 20 * maxStripped THEN 85
      ELSE IF gStripped # <<>> /\ cStripped # <<>> /\ 100 * dStripped <= 35 * maxStripped THEN 70
      ELSE ladderTail(g, c)

\* checkAnswer with the fault of a first edit-distance rung of 20% instead of 15%
checkAnswerWideRung(guess, correctAnswer) ==
  IF guess = <<>> \/ correctAnswer = <<>> THEN 0
  ELSE LET g == normalize(guess)
           c == normalize(correctAnswer)
           distance == levenshtein(g, c)
           maxLen == Max2(Len(g), Len(c))
       IN  IF g = <<>> \/ c = <<>> THEN 0
           ELSE IF g = c THEN 100
           ELSE IF includes(g, c) THEN 100
           ELSE IF includes(c, g) /\ 10 * Len(g) >= 7 * Len(c) THEN 90
           ELSE IF 100 * distance <= 20 * maxLen THEN 90
           ELSE IF 100 * distance <= 25 * maxLen THEN 80
           ELSE IF 100 * distance <= 35 * maxLen THEN 70
           ELSE ladderStripped(g, c)

\* checkAnswer with the fault of grading by edit distance alone, without the
\* rungs of equality and containment
checkAnswerEditOnly(guess, correctAnswer) ==
  IF guess = <<>> \/ correctAnswer = <<>> THEN 0
  ELSE LET g == normalize(guess)
           c == normalize(correctAnswer)
           distance == levenshtein(g, c)
           maxLen == Max2(Len(g), Len(c))
       IN  IF g = <<>> \/ c = <<>> THEN 0
           ELSE IF 100 * distance <= 15 * maxLen THEN 90
           ELSE IF 100 * distance <= 25 * maxLen THEN 80
           ELSE IF 100 * distance <= 35 * maxLen THEN 70
           ELSE ladderStripped(g, c)

\* function checkAnswer(guess, correctAnswer), as a percentage
checkAnswer(guess, correctAnswer) ==
  IF guess = <<>> \/ correctAnswer = <<>> THEN 0
  ELSE LET g == normalize(guess)
           c == normalize(correctAnswer)
           distance == levenshtein(g, c)
           maxLen == Max2(Len(g), Len(c))
       IN  IF g = <<>> \/ c = <<>> THEN 0
           ELSE IF g = c THEN 100
           ELSE IF includes(g, c) THEN 100
           ELSE IF includes(c, g) /\ 10 * Len(g) >= 7 * Len(c) THEN 90
           ELSE IF 100 * distance <= 15 * maxLen THEN 90
           ELSE IF 100 * distance <= 25 * maxLen THEN 80
           ELSE IF 100 * distance <= 35 * maxLen THEN 70
           ELSE ladderStripped(g, c)

(***************************************************************************)
(* BOUNDS AND INPUT SETS                                                    *)
(***************************************************************************)
NumSockets == 3       \* connections that exist over the life of the server
MaxImages == 3        \* images a room ever holds at once
MaxStarts == 2        \* accepted start-game commands
MaxRest == 1          \* REST requests (upload, settings, delete) after the setup

Sockets == 1..NumSockets
HostSockets == {1}    \* the connections that know the room's host credential
PlayerSockets == Sockets \ HostSockets

RoomId == "room"      \* the id createRoom gave the room
UnknownRoomId == "no-such-room"
RoomIds == {RoomId, UnknownRoomId}
HostId == "host-credential"
WrongHostId == "wrong-credential"

\* A second room of the registry, which some specifications create next to the
\* room: it stays as createRoom built it (no image, no player), and only its
\* id and its host credential are modelled.
OtherRoomId == "other-room"
OtherHostId == "other-credential"

rome == <<"R","o","m","e">>
oslo == <<"O","s","l","o">>
Answers == {rome, oslo}
\* guesses: for each answer one that is exact up to case and punctuation (1.0)
\* and one that is a part of it (0.4); each is wrong (0) for the other answer
Guesses == { <<"r","o","m","e","!">>, <<"r","o">>, <<"o","s","l","o">>, <<"o","s">> }
RoundTimes == {3, 4}  \* roundTime values sent to /api/settings, in seconds
RoundCounts == {1}    \* totalRounds values sent to /api/settings

DefaultTotalRounds == 5
StartDelay == 2       \* setTimeout(() => startRound(room), 2000)
AdvanceDelay == 5     \* setTimeout(() => startRound(room), 5000)
HintPeriod == 1       \* setInterval(..., 1000)

\* Every comparison of the elapsed time is against a share of the round time,
\* so the elapsed time saturates at the largest round time (the room's own
\* when it is larger than every value of RoundTimes).
ElapsedCap == CHOOSE n \in RoundTimes : \A k \in RoundTimes : k <= n

(***************************************************************************)
(* STATE                                                                    *)
(***************************************************************************)
VARIABLES
  rooms,     \* const rooms = new Map(): the ids in the registry
  room,      \* the room object createRoom built (alive while a timer holds it)
  sockets,   \* per connection: open, socket.roomId, socket.isHost
  timers,    \* pending setTimeout / setInterval callbacks
  crashed,   \* an uncaught exception ended the process
  out,       \* events emitted by the last step, in order
  ghost      \* history: counters and records the claims are stated over

vars == <<rooms, room, sockets, timers, crashed, out, ghost>>

\* function createRoom(hostId), then the uploads and settings of the setup
createRoom(hostId, images, roundTime, totalRounds) ==
  [ id |-> RoomId,
    hostId |-> hostId,
    hostSocketId |-> NoSocket,
    images |-> images,         \* the answers of the images, in order
    players |-> <<>>,          \* Map in insertion order: [id, score, answers, streak]
    settings |-> [roundTime |-> roundTime, totalRounds |-> totalRounds],
    state |-> "setup",
    currentRound |-> 0,
    roundStartTime |-> NoTime,   \* ticks since roundStartTime (Date.now() - roundStartTime)
    roundTimer |-> NoTimer,      \* id of the timer the handle names
    roundAnswered |-> {},
    expired |-> FALSE ]        \* Date.now() - createdAt > 3 hours

\* history of a round: how often each hint and the round-end were emitted
\* since the round started (counted up to 2), and the hint interval the round
\* started; ghost.positions holds the positions assigned since the round
\* started, in the order of acceptance
NoneYet == [firstLetter |-> 0, wordCount |-> 0, closes |-> 0, hint |-> NoTimer]
Once(n) == Min2(n + 1, 2)

\* The state once the host has set the room up over the REST endpoints: the
\* room createRoom built, with the images uploaded and the settings posted.
InitRooms(ids, setupImages, roundTimes, roundCounts) ==
  /\ rooms = ids
  /\ \E images \in setupImages, roundTime \in roundTimes, totalRounds \in roundCounts :
        room = createRoom(HostId, images, roundTime, totalRounds)
  /\ sockets = [s \in Sockets |-> [open |-> TRUE, roomId |-> NULL, isHost |-> FALSE]]
  /\ timers = {}
  /\ crashed = FALSE
  /\ out = <<>>
  /\ ghost = [starts |-> 0, rest |-> 0, gameOvers |-> 0, lastEnded |-> 0,
              scored |-> {}, firstGame |-> [assets |-> 0, configured |-> 0],
              round |-> NoneYet, positions |-> <<>>]

InitRoom(setupImages, roundTimes, roundCounts) ==
  InitRooms({RoomId}, setupImages, roundTimes, roundCounts)

(***************************************************************************)
(* A handler runs on a context m = [room, timers, out, crashed, ghost]      *)
(***************************************************************************)
Ctx == [room |-> room, timers |-> timers, out |-> <<>>, crashed |-> FALSE, ghost |-> ghost]

Commit(m) ==
  /\ room' = m.room
  /\ timers' = m.timers
  /\ out' = m.out
  /\ crashed' = m.crashed
  /\ ghost' = m.ghost

Emit(m, type, to, data) ==
  [m EXCEPT !.out = Append(@, [type |-> type, to |-> to, data |-> data])]

\* an uncaught TypeError: the handler stops where it is and the process ends
Throw(m) == [m EXCEPT !.crashed = TRUE]

\* room.images[room.currentRound - 1] is an image
HasCurrentImage(r) == r.currentRound >= 1 /\ r.currentRound <= Len(r.images)

UsedTimerIds(m) ==
  {t.id : t \in m.timers} \cup {t.hint : t \in m.timers} \cup {m.room.roundTimer}

newTimerId(m) == CHOOSE n \in 1..(Cardinality(UsedTimerIds(m)) + 1) : n \notin UsedTimerIds(m)

\* a timer of `delay` ticks; seq is its place in the list of its duration
Timer(id, kind, delay, round, hint) ==
  [id |-> id, kind |-> kind, left |-> delay, delay |-> delay, seq |-> 0,
   round |-> round, hint |-> hint, firstLetter |-> FALSE, wordCount |-> FALSE]

\* setTimeout / setInterval: timers of one duration are kept in one list, in
\* the order they were armed
schedule(m, t) ==
  LET same == {u.seq : u \in {v \in m.timers : v.delay = t.delay}}
      last == IF same = {} THEN 0 ELSE CHOOSE n \in same : \A k \in same : k <= n
  IN  [m EXCEPT !.timers = @ \cup {[t EXCEPT !.seq = last + 1]}]

\* t is due, and no timer of the same duration armed before it is pending:
\* timers of one duration run in the order they were armed, timers of
\* different durations that are due in the same second run in either order
Due(t) ==
  /\ t.left = 0
  /\ \A u \in timers : (u.delay = t.delay /\ u.left = 0) => u.seq >= t.seq

clearTimer(m, id) == [m EXCEPT !.timers = {t \in @ : t.id # id}]

IsPlayer(r, s) == \E i \in 1..Len(r.players) : r.players[i].id = s
PlayerIndex(r, s) == CHOOSE i \in 1..Len(r.players) : r.players[i].id = s
PlayerOf(r, s) == r.players[PlayerIndex(r, s)]

\* insertByScore with the fault of placing a record before the records of the
\* same score
RECURSIVE insertByScoreTiesFirst(_, _)
insertByScoreTiesFirst(list, p) ==
  IF list = <<>> THEN <<p>>
  ELSE IF Head(list).score > p.score
       THEN <<Head(list)>> \o insertByScoreTiesFirst(Tail(list), p)
       ELSE <<p>> \o list

\* Array.prototype.sort((a, b) => b.score - a.score): stable, descending
RECURSIVE insertByScore(_, _)
insertByScore(list, p) ==
  IF list = <<>> THEN <<p>>
  ELSE IF Head(list).score >= p.score
       THEN <<Head(list)>> \o insertByScore(Tail(list), p)
       ELSE <<p>> \o list

RECURSIVE sortByScore(_)
sortByScore(list) ==
  IF list = <<>> THEN <<>>
  ELSE insertByScore(sortByScore(SubSeq(list, 1, Len(list) - 1)), list[Len(list)])

\* function getPlayerList(room)
getPlayerList(r) ==
  sortByScore([i \in 1..Len(r.players) |->
     [id |-> r.players[i].id,
      score |-> r.players[i].score,
      streak |-> r.players[i].streak,
      correctAnswers |-> Cardinality({k \in 1..Len(r.players[i].answers) :
                                         r.players[i].answers[k].correct})]])

(***************************************************************************)
(* GAME LOGIC: endGame, startRound, endRound                                *)
(***************************************************************************)
\* function endGame(room)
endGame(m) ==
  LET m1 == [m EXCEPT !.room.state = "finished"]
      m2 == IF m1.room.roundTimer # NoTimer THEN clearTimer(m1, m1.room.roundTimer) ELSE m1
      players == sortByScore(getPlayerList(m2.room))
      m3 == Emit(m2, "game-over", ToRoom,
                 [players |-> players,
                  winner |-> IF players = <<>> THEN NoSocket ELSE players[1].id,
                  totalRounds |-> m2.room.settings.totalRounds])
  IN  [m3 EXCEPT !.ghost.gameOvers = @ + 1]

\* function startRound(room)
startRound(m) ==
  LET m1 == [m EXCEPT !.room.currentRound = @ + 1]
      m2 == [m1 EXCEPT !.room.state = "playing",
                       !.room.roundStartTime = 0,
                       !.room.roundAnswered = {},
                       !.ghost.scored = {},
                       !.ghost.round = NoneYet,
                       !.ghost.positions = <<>>]
      m3 == Emit(m2, "round-start", ToRoom,
                 [round |-> m2.room.currentRound,
                  totalRounds |-> m2.room.settings.totalRounds])
      hintInterval == newTimerId(m3)
      m4 == schedule(m3, Timer(hintInterval, "hint", HintPeriod, m3.room.currentRound, NoTimer))
      roundTimer == newTimerId(m4)
      m5 == schedule(m4, Timer(roundTimer, "end", m4.room.settings.roundTime,
                               m4.room.currentRound, hintInterval))
  IN  IF m1.room.currentRound > m1.room.settings.totalRounds THEN endGame(m1)
      ELSE IF ~HasCurrentImage(m2.room) THEN Throw(m2)    \* currentImage.data
      ELSE [m5 EXCEPT !.room.roundTimer = roundTimer,
                      !.ghost.round.hint = hintInterval]

\* settle with the fault of leaving player.streak as it is
settleKeepingStreak(r) ==
  [i \in 1..Len(r.players) |->
     IF r.players[i].id \notin r.roundAnswered
     THEN [r.players[i] EXCEPT
             !.answers = Append(@, [round |-> r.currentRound, correct |-> FALSE,
                                    points |-> 0, matchQuality |-> 0])]
     ELSE r.players[i]]

\* the settlement loop of endRound over room.players
settle(r) ==
  [i \in 1..Len(r.players) |->
     IF r.players[i].id \notin r.roundAnswered
     THEN [r.players[i] EXCEPT
             !.streak = 0,
             !.answers = Append(@, [round |-> r.currentRound, correct |-> FALSE,
                                    points |-> 0, matchQuality |-> 0])]
     ELSE r.players[i]]

\* endRound with the fault of ending the game itself when the round is the last
endRoundFinishing(m) ==
  LET m1 == [m EXCEPT !.room.state = "roundResult"]
      m2 == [m1 EXCEPT !.room.players = settle(m1.room)]
      m3 == Emit(m2, "round-end", ToRoom,
                 [round |-> m2.room.currentRound,
                  totalRounds |-> m2.room.settings.totalRounds,
                  answeredCount |-> Cardinality(m2.room.roundAnswered),
                  totalPlayers |-> Len(m2.room.players)])
      m4 == [m3 EXCEPT !.ghost.lastEnded = m3.room.currentRound,
                       !.ghost.round.closes = Once(@)]
      roundTimer == newTimerId(m4)
  IN  IF ~HasCurrentImage(m2.room) THEN Throw(m2)
      ELSE IF m4.room.currentRound >= m4.room.settings.totalRounds THEN endGame(m4)
      ELSE [schedule(m4, Timer(roundTimer, "advance", AdvanceDelay,
                               m4.room.currentRound, NoTimer))
              EXCEPT !.room.roundTimer = roundTimer]

\* function endRound(room)
endRound(m) ==
  LET m1 == [m EXCEPT !.room.state = "roundResult"]
      m2 == [m1 EXCEPT !.room.players = settle(m1.room)]
      m3 == Emit(m2, "round-end", ToRoom,
                 [round |-> m2.room.currentRound,
                  totalRounds |-> m2.room.settings.totalRounds,
                  answeredCount |-> Cardinality(m2.room.roundAnswered),
                  totalPlayers |-> Len(m2.room.players)])
      m4 == [m3 EXCEPT !.ghost.lastEnded = m3.room.currentRound,
                       !.ghost.round.closes = Once(@)]
      roundTimer == newTimerId(m4)
  IN  IF ~HasCurrentImage(m2.room) THEN Throw(m2)        \* currentImage.answer
      ELSE [schedule(m4, Timer(roundTimer, "advance", AdvanceDelay,
                               m4.room.currentRound, NoTimer))
              EXCEPT !.room.roundTimer = roundTimer]

(***************************************************************************)
(* SCORING POLICY (socket.on('submit-guess'))                               *)
(***************************************************************************)
\* Math.round(1000 - (elapsed / totalTime) * 900), clamped to [100, 1000]
basePoints(elapsed, totalTime) ==
  Max2(100, Min2(1000, (2000 * totalTime - 1800 * elapsed + totalTime) \div (2 * totalTime)))

\* Math.round(basePoints * matchQuality)
qualityPoints(base, matchQuality) == (2 * base * matchQuality + 100) \div 200

streakBonus(matchQuality, streak) ==
  IF matchQuality >= 70 /\ streak >= 3 THEN 200
  ELSE IF matchQuality >= 70 /\ streak >= 2 THEN 100
  ELSE 0

\* positionBonus with the fault of paying it whatever the quality
positionBonusAnyQuality(matchQuality, position) ==
  IF position = 1 THEN 300
  ELSE IF position = 2 THEN 150
  ELSE IF position = 3 THEN 50
  ELSE 0

positionBonus(matchQuality, position) ==
  IF matchQuality < 70 THEN 0
  ELSE IF position = 1 THEN 300
  ELSE IF position = 2 THEN 150
  ELSE IF position = 3 THEN 50
  ELSE 0

\* scoreGuess with the fault of taking the streak bonus from the streak as it
\* was before the guess
scoreGuessPriorStreak(m, s, matchQuality) ==
  LET r == m.room
      i == PlayerIndex(r, s)
      elapsed == r.roundStartTime
      totalTime == r.settings.roundTime
      streak == IF matchQuality >= 70 THEN r.players[i].streak + 1 ELSE r.players[i].streak
      position == Cardinality(r.roundAnswered) + 1
      points == qualityPoints(basePoints(elapsed, totalTime), matchQuality)
                  + streakBonus(matchQuality, r.players[i].streak)
                  + positionBonus(matchQuality, position)
      m1 == [m EXCEPT
               !.room.players[i].streak = streak,
               !.room.players[i].score = @ + points,
               !.room.players[i].answers =
                   Append(@, [round |-> r.currentRound, correct |-> TRUE,
                              points |-> points, matchQuality |-> matchQuality]),
               !.room.roundAnswered = @ \cup {s},
               !.ghost.scored = @ \cup {s},
               !.ghost.positions = Append(@, position)]
      m2 == Emit(m1, "guess-result", s,
                 [correct |-> TRUE, points |-> points,
                  totalScore |-> m1.room.players[i].score,
                  position |-> position, streak |-> streak])
  IN  Emit(m2, "leaderboard-update", ToRoom,
           [answeredCount |-> Cardinality(m2.room.roundAnswered),
            totalPlayers |-> Len(m2.room.players)])

\* scoreGuess with the fault of ranking the guess among the scorers that are
\* still registered
scoreGuessAmongPresent(m, s, matchQuality) ==
  LET r == m.room
      i == PlayerIndex(r, s)
      elapsed == r.roundStartTime
      totalTime == r.settings.roundTime
      streak == IF matchQuality >= 70 THEN r.players[i].streak + 1 ELSE r.players[i].streak
      position == Cardinality({id \in r.roundAnswered : IsPlayer(r, id)}) + 1
      points == qualityPoints(basePoints(elapsed, totalTime), matchQuality)
                  + streakBonus(matchQuality, streak)
                  + positionBonus(matchQuality, position)
      m1 == [m EXCEPT
               !.room.players[i].streak = streak,
               !.room.players[i].score = @ + points,
               !.room.players[i].answers =
                   Append(@, [round |-> r.currentRound, correct |-> TRUE,
                              points |-> points, matchQuality |-> matchQuality]),
               !.room.roundAnswered = @ \cup {s},
               !.ghost.scored = @ \cup {s},
               !.ghost.positions = Append(@, position)]
      m2 == Emit(m1, "guess-result", s,
                 [correct |-> TRUE, points |-> points,
                  totalScore |-> m1.room.players[i].score,
                  position |-> position, streak |-> streak])
  IN  Emit(m2, "leaderboard-update", ToRoom,
           [answeredCount |-> Cardinality(m2.room.roundAnswered),
            totalPlayers |-> Len(m2.room.players)])

\* the scored branch (matchQuality > 0) of submit-guess
scoreGuess(m, s, matchQuality) ==
  LET r == m.room
      i == PlayerIndex(r, s)
      elapsed == r.roundStartTime
      totalTime == r.settings.roundTime
      streak == IF matchQuality >= 70 THEN r.players[i].streak + 1 ELSE r.players[i].streak
      position == Cardinality(r.roundAnswered) + 1
      points == qualityPoints(basePoints(elapsed, totalTime), matchQuality)
                  + streakBonus(matchQuality, streak)
                  + positionBonus(matchQuality, position)
      m1 == [m EXCEPT
               !.room.players[i].streak = streak,
               !.room.players[i].score = @ + points,
               !.room.players[i].answers =
                   Append(@, [round |-> r.currentRound, correct |-> TRUE,
                              points |-> points, matchQuality |-> matchQuality]),
               !.room.roundAnswered = @ \cup {s},
               !.ghost.scored = @ \cup {s},
               !.ghost.positions = Append(@, position)]
      m2 == Emit(m1, "guess-result", s,
                 [correct |-> TRUE, points |-> points,
                  totalScore |-> m1.room.players[i].score,
                  position |-> position, streak |-> streak])
  IN  Emit(m2, "leaderboard-update", ToRoom,
           [answeredCount |-> Cardinality(m2.room.roundAnswered),
            totalPlayers |-> Len(m2.room.players)])

(***************************************************************************)
(* REST ENDPOINTS (requests for a room of the registry)                     *)
(***************************************************************************)
\* app.post('/api/upload/:roomId'), one file with its answer
Upload(answer) ==
  /\ ~crashed /\ RoomId \in rooms
  /\ ghost.rest < MaxRest /\ Len(room.images) < MaxImages
  /\ Commit([Ctx EXCEPT !.room.images = Append(@, answer), !.ghost.rest = @ + 1])
  /\ UNCHANGED <<rooms, sockets>>

\* app.post('/api/settings/:roomId'); 0 is a field the request leaves out
\* (if (roundTime) ..., if (totalRounds) ...)
Settings(roundTime, totalRounds) ==
  /\ ~crashed /\ RoomId \in rooms
  /\ ghost.rest < MaxRest
  /\ roundTime # 0 \/ totalRounds # 0
  /\ Commit([Ctx EXCEPT
               !.room.settings.roundTime = IF roundTime # 0 THEN roundTime ELSE @,
               !.room.settings.totalRounds = IF totalRounds # 0 THEN totalRounds ELSE @,
               !.ghost.rest = @ + 1])
  /\ UNCHANGED <<rooms, sockets>>

\* app.delete('/api/image/:roomId/:index'), index 0-based
DeleteImage(index) ==
  /\ ~crashed /\ RoomId \in rooms
  /\ ghost.rest < MaxRest
  /\ index >= 0 /\ index < Len(room.images)
  /\ Commit([Ctx EXCEPT
               !.room.images = SubSeq(@, 1, index) \o SubSeq(@, index + 2, Len(@)),
               !.ghost.rest = @ + 1])
  /\ UNCHANGED <<rooms, sockets>>

(***************************************************************************)
(* SOCKET.IO EVENTS                                                         *)
(***************************************************************************)
\* rooms.get(roomId).hostId
hostIdOf(roomId) == IF roomId = OtherRoomId THEN OtherHostId ELSE room.hostId

\* socket.on('host-join', ({ roomId, hostId }) => ...)
HostJoin(s, roomId, hostId) ==
  /\ ~crashed /\ sockets[s].open
  /\ IF roomId \notin rooms \/ hostIdOf(roomId) # hostId
     THEN /\ Commit(Emit(Ctx, "error-msg", s, "Invalid room or host ID"))
          /\ UNCHANGED sockets
     ELSE IF roomId = OtherRoomId
     THEN /\ Commit(Emit(Ctx, "room-joined", s, [isHost |-> TRUE]))
          /\ sockets' = [sockets EXCEPT ![s].roomId = roomId, ![s].isHost = TRUE]
     ELSE /\ Commit(Emit([Ctx EXCEPT !.room.hostSocketId = s, !.room.state = "lobby"],
                         "room-joined", s, [isHost |-> TRUE]))
          /\ sockets' = [sockets EXCEPT ![s].roomId = roomId, ![s].isHost = TRUE]
  /\ UNCHANGED rooms

\* room.players.set(socket.id, player): a Map keeps the place of a key it holds
setPlayer(r, player) ==
  IF IsPlayer(r, player.id)
  THEN [r EXCEPT !.players[PlayerIndex(r, player.id)] = player]
  ELSE [r EXCEPT !.players = Append(@, player)]

\* function getHint(answer, elapsed, totalTime): the types of the hints
getHint(elapsed, totalTime) ==
  (IF 2 * elapsed >= totalTime THEN <<"first-letter">> ELSE <<>>)
    \o (IF 4 * elapsed >= 3 * totalTime THEN <<"word-count">> ELSE <<>>)

\* the part of player-join behind the three guards
joinRoom(m, s) ==
  LET player == [id |-> s, score |-> 0, answers |-> <<>>, streak |-> 0]
      m1 == [m EXCEPT !.room = setPlayer(m.room, player)]
      m2 == Emit(m1, "room-joined", s, [isHost |-> FALSE, state |-> m1.room.state])
      m3 == Emit(m2, "player-update", ToRoom, [message |-> "joined"])
      elapsed == m3.room.roundStartTime
      totalTime == m3.room.settings.roundTime
  IN  IF m3.room.state # "playing" THEN m3
      ELSE IF ~HasCurrentImage(m3.room) THEN Throw(m3)   \* room.images[...].data
      ELSE Emit(m3, "round-start", s,
                [round |-> m3.room.currentRound,
                 totalRounds |-> m3.room.settings.totalRounds,
                 timeRemaining |-> Max2(0, totalTime - elapsed),
                 hint |-> getHint(elapsed, totalTime)])

\* socket.on('player-join', ({ roomId, playerName }) => ...); nobody asks to
\* join the second room
PlayerJoin(s, roomId) ==
  /\ ~crashed /\ sockets[s].open /\ roomId # OtherRoomId
  /\ IF roomId \notin rooms
     THEN /\ Commit(Emit(Ctx, "error-msg", s, "Room not found"))
          /\ UNCHANGED sockets
     ELSE IF room.state = "finished"
     THEN /\ Commit(Emit(Ctx, "error-msg", s, "This game has already ended"))
          /\ UNCHANGED sockets
     ELSE IF room.state = "setup"
     THEN /\ Commit(Emit(Ctx, "error-msg", s, "Room is still being set up"))
          /\ UNCHANGED sockets
     ELSE /\ Commit(joinRoom(Ctx, s))
          /\ sockets' = [sockets EXCEPT ![s].roomId = roomId, ![s].isHost = FALSE]
  /\ UNCHANGED rooms

\* startGame with the fault of keeping the answer histories
startGameKeepingAnswers(m, s) ==
  LET r == m.room
      m1 == [m EXCEPT
               !.room.settings.totalRounds = Min2(@, Len(r.images)),
               !.room.currentRound = 0,
               !.room.state = "playing",
               !.room.players = [i \in 1..Len(r.players) |->
                                   [r.players[i] EXCEPT !.score = 0, !.streak = 0]],
               !.ghost.starts = @ + 1,
               !.ghost.firstGame =
                   IF @.assets = 0
                   THEN [assets |-> Len(r.images), configured |-> r.settings.totalRounds]
                   ELSE @]
      m2 == Emit(m1, "game-started", ToRoom,
                 [totalRounds |-> m1.room.settings.totalRounds,
                  roundTime |-> m1.room.settings.roundTime,
                  playerCount |-> Len(m1.room.players)])
  IN  schedule(m2, Timer(newTimerId(m2), "start", StartDelay, 0, NoTimer))

\* the part of start-game behind the guards
startGame(m, s) ==
  LET r == m.room
      m1 == [m EXCEPT
               !.room.settings.totalRounds = Min2(@, Len(r.images)),
               !.room.currentRound = 0,
               !.room.state = "playing",
               !.room.players = [i \in 1..Len(r.players) |->
                                   [r.players[i] EXCEPT !.score = 0, !.answers = <<>>,
                                                        !.streak = 0]],
               !.ghost.starts = @ + 1,
               !.ghost.firstGame =
                   IF @.assets = 0
                   THEN [assets |-> Len(r.images), configured |-> r.settings.totalRounds]
                   ELSE @]
      m2 == Emit(m1, "game-started", ToRoom,
                 [totalRounds |-> m1.room.settings.totalRounds,
                  roundTime |-> m1.room.settings.roundTime,
                  playerCount |-> Len(m1.room.players)])
  IN  schedule(m2, Timer(newTimerId(m2), "start", StartDelay, 0, NoTimer))

\* start-game with the fault of not looking at the number of images
StartGameUnchecked(s, roomId) ==
  /\ ~crashed /\ sockets[s].open
  /\ IF roomId \notin rooms \/ ~sockets[s].isHost
     THEN Commit(Ctx)
     ELSE IF roomId = OtherRoomId
     THEN Commit(Emit(Ctx, "error-msg", s, "No images uploaded"))
     ELSE /\ ghost.starts < MaxStarts
          /\ Commit(startGame(Ctx, s))
  /\ UNCHANGED <<rooms, sockets>>

\* socket.on('start-game', ({ roomId }) => ...); the second room has no image
StartGame(s, roomId) ==
  /\ ~crashed /\ sockets[s].open
  /\ IF roomId \notin rooms \/ ~sockets[s].isHost
     THEN Commit(Ctx)
     ELSE IF roomId = OtherRoomId \/ Len(room.images) = 0
     THEN Commit(Emit(Ctx, "error-msg", s, "No images uploaded"))
     ELSE /\ ghost.starts < MaxStarts
          /\ Commit(startGame(Ctx, s))
  /\ UNCHANGED <<rooms, sockets>>

\* submit-guess with the fault of not looking the sender up in roundAnswered
submitGuessRescoring(m, s, guess) ==
  LET r == m.room
      matchQuality == checkAnswer(guess, r.images[r.currentRound])
  IN  IF r.state # "playing" THEN m
      ELSE IF ~IsPlayer(r, s) THEN m
      ELSE IF ~HasCurrentImage(r) THEN Throw(m)
      ELSE IF matchQuality > 0 THEN scoreGuess(m, s, matchQuality)
      ELSE Emit(m, "guess-result", s, [correct |-> FALSE])

\* submit-guess with the fault of not looking at the state of the room
submitGuessAnyState(m, s, guess) ==
  LET r == m.room
      matchQuality == checkAnswer(guess, r.images[r.currentRound])
  IN  IF ~IsPlayer(r, s) THEN m
      ELSE IF s \in r.roundAnswered
      THEN Emit(m, "guess-result", s, [correct |-> TRUE, alreadyAnswered |-> TRUE])
      ELSE IF ~HasCurrentImage(r) THEN Throw(m)
      ELSE IF matchQuality > 0 THEN scoreGuess(m, s, matchQuality)
      ELSE Emit(m, "guess-result", s, [correct |-> FALSE])

\* submit-guess with the fault of allowing one attempt: a wrong guess puts the
\* sender into roundAnswered
submitGuessOneAttempt(m, s, guess) ==
  LET r == m.room
      matchQuality == checkAnswer(guess, r.images[r.currentRound])
  IN  IF r.state # "playing" THEN m
      ELSE IF ~IsPlayer(r, s) THEN m
      ELSE IF s \in r.roundAnswered
      THEN Emit(m, "guess-result", s, [correct |-> TRUE, alreadyAnswered |-> TRUE])
      ELSE IF ~HasCurrentImage(r) THEN Throw(m)
      ELSE IF matchQuality > 0 THEN scoreGuess(m, s, matchQuality)
      ELSE Emit([m EXCEPT !.room.roundAnswered = @ \cup {s}],
                "guess-result", s, [correct |-> FALSE])

\* socket.on('submit-guess', ({ roomId, guess }) => ...)
submitGuess(m, s, guess) ==
  LET r == m.room
      matchQuality == checkAnswer(guess, r.images[r.currentRound])
  IN  IF r.state # "playing" THEN m
      ELSE IF ~IsPlayer(r, s) THEN m
      ELSE IF s \in r.roundAnswered
      THEN Emit(m, "guess-result", s, [correct |-> TRUE, alreadyAnswered |-> TRUE])
      ELSE IF ~HasCurrentImage(r) THEN Throw(m)          \* currentImage.answer
      ELSE IF matchQuality > 0 THEN scoreGuess(m, s, matchQuality)
      ELSE Emit(m, "guess-result", s, [correct |-> FALSE])

\* the second room is never in state playing
SubmitGuess(s, roomId, guess) ==
  /\ ~crashed /\ sockets[s].open
  /\ IF roomId \notin rooms \/ roomId = OtherRoomId
     THEN Commit(Ctx)
     ELSE Commit(submitGuess(Ctx, s, guess))
  /\ UNCHANGED <<rooms, sockets>>

\* socket.on('disconnect', () => ...)
disconnect(m, s) ==
  LET r == m.room
      left == SelectSeq(r.players, LAMBDA p : p.id # s)
  IN  IF sockets[s].isHost THEN Emit(m, "host-disconnected", ToRoom, <<>>)
      ELSE IF IsPlayer(r, s)
      THEN Emit([m EXCEPT !.room.players = left], "player-update", ToRoom,
                [message |-> "left"])
      ELSE m

\* the connections attached to the second room stay open
Disconnect(s) ==
  /\ ~crashed /\ sockets[s].open /\ sockets[s].roomId # OtherRoomId
  /\ sockets' = [sockets EXCEPT ![s].open = FALSE]
  /\ IF sockets[s].roomId = NULL \/ sockets[s].roomId \notin rooms
     THEN Commit(Ctx)
     ELSE Commit(disconnect(Ctx, s))
  /\ UNCHANGED rooms

(***************************************************************************)
(* TIMERS                                                                   *)
(***************************************************************************)
\* setTimeout(() => startRound(room), 2000) of start-game
FireStart(t) ==
  /\ ~crashed /\ t.kind = "start" /\ Due(t)
  /\ Commit(startRound([Ctx EXCEPT !.timers = @ \ {t}]))
  /\ UNCHANGED <<rooms, sockets>>

\* setTimeout(() => { startRound(room); }, 5000) of endRound
FireAdvance(t) ==
  /\ ~crashed /\ t.kind = "advance" /\ Due(t)
  /\ Commit(startRound([Ctx EXCEPT !.timers = @ \ {t}]))
  /\ UNCHANGED <<rooms, sockets>>

\* the callback of hintInterval
hintTick(m, t) ==
  LET elapsed == m.room.roundStartTime
      totalTime == m.room.settings.roundTime
      first == 2 * elapsed >= totalTime /\ ~t.firstLetter
      second == 4 * elapsed >= 3 * totalTime /\ ~t.wordCount
      m1 == IF first
            THEN Emit([m EXCEPT !.ghost.round.firstLetter = Once(@)],
                      "hint", ToRoom, [type |-> "first-letter", round |-> t.round])
            ELSE m
      m2 == IF second
            THEN Emit([m1 EXCEPT !.ghost.round.wordCount = Once(@)],
                      "hint", ToRoom, [type |-> "word-count", round |-> t.round])
            ELSE m1
      next == [t EXCEPT !.left = HintPeriod,
                        !.firstLetter = @ \/ first,
                        !.wordCount = @ \/ second]
  IN  IF m.room.state # "playing" THEN [m EXCEPT !.timers = @ \ {t}]
      ELSE IF second THEN [m2 EXCEPT !.timers = @ \ {t}]
      ELSE schedule([m2 EXCEPT !.timers = @ \ {t}], next)

FireHint(t) ==
  /\ ~crashed /\ t.kind = "hint" /\ Due(t)
  /\ Commit(hintTick(Ctx, t))
  /\ UNCHANGED <<rooms, sockets>>

\* room.roundTimer = setTimeout(() => { clearInterval(hintInterval); endRound(room); }, ...)
FireEnd(t) ==
  /\ ~crashed /\ t.kind = "end" /\ Due(t)
  /\ Commit(endRound(clearTimer([Ctx EXCEPT !.timers = @ \ {t}], t.hint)))
  /\ UNCHANGED <<rooms, sockets>>

\* 1000 ms pass; no timer is overdue
Tick ==
  /\ ~crashed /\ timers # {}
  /\ \A t \in timers : t.left > 0
  /\ Commit([Ctx EXCEPT
               !.timers = {[t EXCEPT !.left = @ - 1] : t \in timers},
               !.room.roundStartTime =
                   IF @ = NoTime THEN @
                   ELSE Min2(@ + 1, Max2(ElapsedCap, room.settings.roundTime))])
  /\ UNCHANGED <<rooms, sockets>>

(***************************************************************************)
(* ROOM CLEANUP                                                             *)
(***************************************************************************)
\* the room becomes older than three hours: now - room.createdAt > 3 * 60 * 60 * 1000
Expire ==
  /\ ~crashed /\ ~room.expired
  /\ Commit([Ctx EXCEPT !.room.expired = TRUE])
  /\ UNCHANGED <<rooms, sockets>>

\* setInterval(() => { ... rooms.delete(id) ... }, 60 * 1000)
Sweep ==
  /\ ~crashed /\ RoomId \in rooms /\ room.expired
  /\ rooms' = rooms \ {RoomId}
  /\ Commit(IF room.roundTimer # NoTimer THEN clearTimer(Ctx, room.roundTimer) ELSE Ctx)
  /\ UNCHANGED sockets

(***************************************************************************)
(* SPECIFICATION                                                            *)
(***************************************************************************)
\* the REST requests of the host's page
RestStep ==
  \/ \E a \in Answers : Upload(a)
  \/ \E rt \in RoundTimes \cup {0}, tr \in RoundCounts \cup {0} : Settings(rt, tr)
  \/ \E i \in 0..(MaxImages - 1) : DeleteImage(i)

\* the events of the host's connection
HostStep ==
  \/ \E s \in HostSockets : HostJoin(s, RoomId, HostId)
  \/ \E s \in HostSockets : StartGame(s, RoomId)
  \/ \E s \in HostSockets : Disconnect(s)

\* the events of the players' connections S
PlayerStep(S) ==
  \/ \E s \in S : PlayerJoin(s, RoomId)
  \/ \E s \in S, g \in Guesses : SubmitGuess(s, RoomId, g)
  \/ \E s \in S : Disconnect(s)

\* the timer callbacks and the passing of time
TimerStep ==
  \/ \E t \in timers : FireStart(t)
  \/ \E t \in timers : FireAdvance(t)
  \/ \E t \in timers : FireHint(t)
  \/ \E t \in timers : FireEnd(t)
  \/ Tick

\* the cleanup of old rooms
EvictStep ==
  \/ Expire
  \/ Sweep

(***************************************************************************)
(* Spec: a room with at most one image, the host and all players, the host  *)
(* free to issue start-game again; no REST request after the setup and no   *)
(* eviction.                                                                *)
(***************************************************************************)
Init == InitRoom({<<>>, <<rome>>}, {4}, {DefaultTotalRounds})

Next ==
  \/ HostStep
  \/ PlayerStep(PlayerSockets)
  \/ TimerStep

Spec == Init /\ [][Next]_vars

(***************************************************************************)
(* SpecRounds: a room with two images and one player, with eviction.        *)
(***************************************************************************)
InitRounds == InitRoom({<<oslo, rome>>}, {3}, {DefaultTotalRounds})

NextRounds ==
  \/ HostStep
  \/ PlayerStep({2})
  \/ TimerStep
  \/ EvictStep

SpecRounds == InitRounds /\ [][NextRounds]_vars

(***************************************************************************)
(* SpecScoring: games that the host starts once, nobody leaving:            *)
(*  - one image, 30-second rounds, two players who guess right or wrong;    *)
(*  - three images, 4-second rounds, one player (streaks up to 3);          *)
(*  - one image, 7-second rounds, one player (time shares that do not       *)
(*    divide 900, every quality).                                           *)
(***************************************************************************)
romeBang == <<"r","o","m","e","!">>
rom == <<"r","o","m">>          \* contained in "rome", 3 of 4 letters: 0.9
ro == <<"r","o">>
ScoringGuesses == {romeBang, rom, ro, <<"o","s","l","o">>}

\* player-join and submit-guess of the connections S, the guesses drawn from G
PlayStep(S, G) ==
  \/ \E s \in S : PlayerJoin(s, RoomId)
  \/ \E s \in S, g \in G : SubmitGuess(s, RoomId, g)

\* the host attaches and starts the game, once
HostOnceStep ==
  \/ \E s \in HostSockets : HostJoin(s, RoomId, HostId)
  \/ \E s \in HostSockets : ghost.starts = 0 /\ StartGame(s, RoomId)

InitScoring ==
  \/ InitRoom({<<rome>>}, {30}, {DefaultTotalRounds})
  \/ InitRoom({<<rome, rome, rome>>}, {4}, {DefaultTotalRounds})
  \/ InitRoom({<<rome>>}, {7}, {DefaultTotalRounds})

ScoringPlayers == IF room.settings.roundTime = 30 THEN PlayerSockets ELSE {2}

ScoringInputs ==
  IF room.settings.roundTime = 30 THEN {romeBang, <<"o","s","l","o">>}
  ELSE IF room.settings.roundTime = 4 THEN {romeBang, ro, <<"o","s","l","o">>}
  ELSE ScoringGuesses

NextScoring ==
  \/ HostOnceStep
  \/ PlayStep(ScoringPlayers, ScoringInputs)
  \/ TimerStep

SpecScoring == InitScoring /\ [][NextScoring]_vars

(***************************************************************************)
(* SpecRequests: requests of every connection, valid or not: unknown room   *)
(* ids, wrong host credentials, start-game and submit-guess from            *)
(* connections that are neither host nor player, with eviction. Rooms with  *)
(* no image, with one image, and with two images and totalRounds 1.         *)
(***************************************************************************)
HostIds == {HostId, WrongHostId}
RequestGuesses == {romeBang, <<"o","s">>}

\* socket 1 holds the host credential, socket 2 joins as a player, socket 3
\* never joins
RequestStep ==
  \/ \E s \in Sockets, r \in RoomIds, h \in HostIds :
        (s \in HostSockets \/ h = WrongHostId) /\ HostJoin(s, r, h)
  \/ \E r \in RoomIds : PlayerJoin(2, r)
  \/ \E s \in Sockets, r \in RoomIds : StartGame(s, r)
  \/ \E s \in Sockets, r \in RoomIds, g \in RequestGuesses : SubmitGuess(s, r, g)

InitRequests ==
  \/ InitRoom({<<>>, <<rome>>}, {3}, {DefaultTotalRounds})
  \/ InitRoom({<<oslo, rome>>}, {3}, RoundCounts)

NextRequests ==
  \/ RequestStep
  \/ TimerStep
  \/ EvictStep

SpecRequests == InitRequests /\ [][NextRequests]_vars

(***************************************************************************)
(* SpecMatch: one-round games of one player, started once, on an image      *)
(* whose answer is "Eiffel Tower", "eiffel tower" or "?!", with guesses     *)
(* that are graded by different rungs of checkAnswer.                       *)
(***************************************************************************)
eiffelTower == <<"E","i","f","f","e","l"," ","T","o","w","e","r">>
eiffelTowerLower == <<"e","i","f","f","e","l"," ","t","o","w","e","r">>
punctuation == <<"?","!">>
MatchAnswers == {eiffelTower, eiffelTowerLower, punctuation}

eifelToer == <<"E","i","f","e","l"," ","T","o","e","r">>          \* "Eifel Toer"
theEiffelTower == <<"T","h","e"," ","E","i","f","f","e","l"," ","T","o","w","e","r">>
eiffelTowerLoud == <<"E","I","F","F","E","L"," "," ","T","O","W","E","R","!">>    \* "EIFFEL  TOWER!"
banana == <<"b","a","n","a","n","a">>
MatchGuesses == {eifelToer, theEiffelTower, eiffelTowerLoud, banana, <<"!","?">>}

InitMatch == InitRoom({<<a>> : a \in MatchAnswers}, {2}, {DefaultTotalRounds})

NextMatch ==
  \/ HostOnceStep
  \/ PlayStep({2}, MatchGuesses)
  \/ TimerStep

SpecMatch == InitMatch /\ [][NextMatch]_vars

(***************************************************************************)
(* SpecGame: the host attaches and issues start-game (up to MaxStarts       *)
(* times), then stays silent; one player joins, guesses and leaves at will; *)
(* rooms with one and with two images. Timers that are due do fire, and     *)
(* time does pass.                                                          *)
(***************************************************************************)
GameGuesses == {romeBang, <<"o","s">>}

\* the commands of the host: host-join before the first start-game, start-game
HostCommandStep ==
  \/ \E s \in HostSockets : ghost.starts = 0 /\ HostJoin(s, RoomId, HostId)
  \/ \E s \in HostSockets : StartGame(s, RoomId)

\* the events of the player's connection, and the host's connection closing
InterleavedStep ==
  \/ PlayStep({2}, GameGuesses)
  \/ \E s \in Sockets : Disconnect(s)

InitGame == InitRoom({<<rome>>, <<oslo, rome>>}, {2}, {DefaultTotalRounds})

NextGame ==
  \/ HostCommandStep
  \/ InterleavedStep
  \/ TimerStep

SpecGame == InitGame /\ [][NextGame]_vars /\ WF_vars(TimerStep)

(***************************************************************************)
(* SpecRest: the host's page sends one more REST request (upload, settings, *)
(* image deletion) at any moment of a game that is started once, with one   *)
(* player; rooms with one and with two images. The settings request may     *)
(* also ask for rounds of LongRoundTime seconds.                            *)
(***************************************************************************)
LongRoundTime == 6

InitRest == InitRoom({<<rome>>, <<oslo, rome>>}, {3}, {DefaultTotalRounds})

NextRest ==
  \/ HostOnceStep
  \/ RestStep
  \/ Settings(LongRoundTime, 0)
  \/ PlayStep({2}, GameGuesses)
  \/ TimerStep

SpecRest == InitRest /\ [][NextRest]_vars

(***************************************************************************)
(* SpecHosts: two rooms in the registry. Connection 1 holds the credential  *)
(* of the room and attaches to it as host, connection 2 joins it as a       *)
(* player, connection 3 holds the credential of the second room and         *)
(* attaches to that as host; every connection sends start-game for either   *)
(* room.                                                                    *)
(***************************************************************************)
HostsStep ==
  \/ \E s \in HostSockets : HostJoin(s, RoomId, HostId)
  \/ \E r \in {RoomId, OtherRoomId} : HostJoin(3, r, OtherHostId)
  \/ \E s \in Sockets, r \in {RoomId, OtherRoomId} : StartGame(s, r)

InitHosts ==
  InitRooms({RoomId, OtherRoomId}, {<<>>, <<rome>>}, {3}, {DefaultTotalRounds})

NextHosts ==
  \/ HostsStep
  \/ PlayStep({2}, GameGuesses)
  \/ TimerStep

SpecHosts == InitHosts /\ [][NextHosts]_vars

(***************************************************************************)
(* CLAIMS                                                                   *)
(***************************************************************************)
\* the step emitted an event of this type
Emitted(type) == \E k \in 1..Len(out') : out'[k].type = type

AlreadyAnswered(s) ==
  [type |-> "guess-result", to |-> s, data |-> [correct |-> TRUE, alreadyAnswered |-> TRUE]]

\* C1: a guess (of any quality, so also one of quality > 0) that a registered
\* player submits while the round is open, after a guess of theirs was scored
\* in this round, is answered with guess-result {alreadyAnswered: true} to
\* the sender alone and changes nothing of the room: no score, streak, answer
\* history or answered set, whatever was handled since the scored guess.
C1_SecondGuessIsDuplicate ==
  [][\A s \in Sockets, g \in Guesses :
       (/\ room.state = "playing" /\ IsPlayer(room, s) /\ s \in ghost.scored
        /\ SubmitGuess(s, RoomId, g))
       => (room' = room /\ out' = <<AlreadyAnswered(s)>>)]_vars

\* a second guess was answered as a duplicate; the first one is the only
\* entry of the sender's history, and another player scored in the round too
C1_Witness ==
  \E s \in Sockets :
    /\ out = <<AlreadyAnswered(s)>>
    /\ room.state = "playing" /\ IsPlayer(room, s)
    /\ Len(PlayerOf(room, s).answers) = 1 /\ PlayerOf(room, s).score > 0
    /\ Cardinality(room.roundAnswered) = 2

\* C2: the answer history of every player holds at most one entry per round
\* number.
C2_OneEntryPerRound ==
  \A i \in 1..Len(room.players) :
    \A k1, k2 \in 1..Len(room.players[i].answers) :
      k1 # k2 => room.players[i].answers[k1].round # room.players[i].answers[k2].round

\* C3: roundAnswered never holds more identifiers than the room has players.
C3_AnsweredWithinPlayers == Cardinality(room.roundAnswered) <= Len(room.players)

\* C4: finished is terminal: no step takes a finished room to another state.
C4_FinishedIsTerminal ==
  [][room.state = "finished" => room'.state = "finished"]_vars

C6_OneGameOver ==
  (ghost.firstGame.assets = 1 /\ ghost.firstGame.configured = DefaultTotalRounds)
    => (room.settings.totalRounds = 1 /\ ghost.gameOvers <= 1)

\* C7: once start-game was accepted, no step lowers the score of a player
\* who is registered before and after it.
C7_ScoreMonotone ==
  [][\A s \in Sockets :
       (ghost.starts > 0 /\ IsPlayer(room, s) /\ IsPlayer(room', s))
       => PlayerOf(room', s).score >= PlayerOf(room, s).score]_vars

\* C8: currentRound changes only by +1, and only from 0 or after the
\* round-end of the round it leaves was emitted.
C8_RoundAdvancesByOne ==
  [][room'.currentRound # room.currentRound =>
       /\ room'.currentRound = room.currentRound + 1
       /\ room.currentRound = 0 \/ ghost.lastEnded = room.currentRound]_vars

\* C9: in state playing, 1 <= currentRound <= totalRounds <= number of images.
C9_RoundIndexInRange ==
  room.state = "playing" =>
    /\ 1 <= room.currentRound
    /\ room.currentRound <= room.settings.totalRounds
    /\ room.settings.totalRounds <= Len(room.images)

\* the entries of a history that follow its last {correct: false} entry
RECURSIVE sinceLastMiss(_)
sinceLastMiss(answers) ==
  IF answers = <<>> \/ ~answers[Len(answers)].correct THEN <<>>
  ELSE Append(sinceLastMiss(SubSeq(answers, 1, Len(answers) - 1)), answers[Len(answers)])

closeMatches(answers) ==
  Cardinality({k \in 1..Len(answers) : answers[k].matchQuality >= 70})

RoundHalfUp(n, d) == (2 * n + d) \div (2 * d)

\* round(clamp(round(1000 - 900*elapsedMs/totalMs), 100, 1000) * quality),
\* quality in percent, plus the streak bonus and the bonus of the position
Award(elapsedMs, totalMs, quality, newStreak, position) ==
  LET decayed == RoundHalfUp(1000 * totalMs - 900 * elapsedMs, totalMs)
      base == IF decayed < 100 THEN 100 ELSE IF decayed > 1000 THEN 1000 ELSE decayed
  IN  RoundHalfUp(base * quality, 100)
        + (IF quality >= 70 /\ newStreak >= 3 THEN 200
           ELSE IF quality >= 70 /\ newStreak >= 2 THEN 100 ELSE 0)
        + (IF quality >= 70 /\ position = 1 THEN 300
           ELSE IF quality >= 70 /\ position = 2 THEN 150
           ELSE IF quality >= 70 /\ position = 3 THEN 50 ELSE 0)

\* C11: the points of an accepted guess (quality > 0, from a registered player
\* not yet in the answered set) are round(clamp(round(1000 - 900 *
\* elapsedMs/totalMs), 100, 1000) * quality) plus the streak bonus of the
\* incremented streak plus the bonus of the position the result reports; they
\* are reported in guess-result, added to the score and logged in the history.
\* With totalMs = 30000: quality 1.0 at 0 ms as first responder with streak 1
\* is 1300, quality 1.0 at 15000 ms as second responder with streak 1 is 700.
C11_PointsAwarded ==
  [][\A s \in Sockets, g \in Guesses \cup ScoringGuesses :
       (/\ room.state = "playing" /\ IsPlayer(room, s) /\ s \notin room.roundAnswered
        /\ HasCurrentImage(room)
        /\ checkAnswer(g, room.images[room.currentRound]) > 0
        /\ SubmitGuess(s, RoomId, g))
       => LET quality == checkAnswer(g, room.images[room.currentRound])
              elapsedMs == 1000 * room.roundStartTime
              totalMs == 1000 * room.settings.roundTime
              prior == PlayerOf(room, s)
              after == PlayerOf(room', s)
              newStreak == IF quality >= 70 THEN prior.streak + 1 ELSE prior.streak
              result == out'[1]
              points == Award(elapsedMs, totalMs, quality, newStreak, result.data.position)
          IN  /\ result.type = "guess-result" /\ result.to = s /\ result.data.correct
              /\ result.data.points = points
              /\ result.data.totalScore = prior.score + points
              /\ after.score = prior.score + points
              /\ after.streak = newStreak
              /\ after.answers[Len(after.answers)].points = points
              /\ (/\ totalMs = 30000 /\ elapsedMs = 0 /\ quality = 100
                  /\ room.roundAnswered = {} /\ newStreak = 1) => points = 1300
              /\ (/\ totalMs = 30000 /\ elapsedMs = 15000 /\ quality = 100
                  /\ Cardinality(room.roundAnswered) = 1 /\ newStreak = 1) => points = 700]_vars

\* in a 30-second round one player scored 1300 at 0 ms and the other has just
\* been awarded 700 for an exact guess at 15000 ms
C11_Witness ==
  /\ room.settings.roundTime = 30 /\ room.state = "playing" /\ room.roundStartTime = 15
  /\ Len(out) = 2 /\ out[1].type = "guess-result" /\ out[1].data.correct
  /\ out[1].data.points = 700 /\ out[1].data.position = 2 /\ out[1].data.streak = 1
  /\ \E i \in 1..Len(room.players) :
       /\ room.players[i].id # out[1].to
       /\ room.players[i].answers = << [round |-> 1, correct |-> TRUE,
                                        points |-> 1300, matchQuality |-> 100] >>

\* everyone whose guess was accepted in the round is still registered under the
\* record that holds the entry of that guess (nobody left or joined again)
ScorersPresent ==
  \A id \in room.roundAnswered :
    /\ IsPlayer(room, id)
    /\ \E k \in 1..Len(PlayerOf(room, id).answers) :
         PlayerOf(room, id).answers[k].round = room.currentRound

\* the guesses of quality >= 0.7 accepted so far in the round
QualifyingSoFar ==
  Cardinality({i \in 1..Len(room.players) :
                 \E k \in 1..Len(room.players[i].answers) :
                    /\ room.players[i].answers[k].round = room.currentRound
                    /\ room.players[i].answers[k].matchQuality >= 70})

\* C12 as stated, for a game started once and a round whose scorers are all
\* still registered: an accepted guess is awarded the position bonus of its
\* rank among the guesses of quality >= 0.7 accepted so far in the round (300,
\* 150, 50, 0), and none when its quality is below 0.7.
C12_RankAmongQualifying ==
  [][\A s \in Sockets, g \in Guesses :
       (/\ ghost.starts = 1 /\ room.state = "playing" /\ IsPlayer(room, s)
        /\ s \notin room.roundAnswered /\ HasCurrentImage(room) /\ ScorersPresent
        /\ checkAnswer(g, room.images[room.currentRound]) > 0
        /\ SubmitGuess(s, RoomId, g))
       => LET quality == checkAnswer(g, room.images[room.currentRound])
              prior == PlayerOf(room, s)
              newStreak == IF quality >= 70 THEN prior.streak + 1 ELSE prior.streak
          IN  out'[1].data.points =
                Award(1000 * room.roundStartTime, 1000 * room.settings.roundTime,
                      quality, newStreak, QualifyingSoFar + 1)]_vars

\* C12, amended: the position of an accepted guess is its 1-indexed rank among
\* all guesses of quality > 0 accepted since the round started, those of
\* quality below 0.7 and those of players who have left since included; a guess
\* of quality >= 0.7 gets +300, +150, +50 or +0 for position 1, 2, 3 or
\* later, a guess of quality below 0.7 gets no position bonus but takes a
\* position.
C12_RankAmongAccepted ==
  [][\A s \in Sockets, g \in Guesses :
       (/\ room.state = "playing" /\ IsPlayer(room, s)
        /\ s \notin room.roundAnswered /\ HasCurrentImage(room)
        /\ checkAnswer(g, room.images[room.currentRound]) > 0
        /\ SubmitGuess(s, RoomId, g))
       => LET quality == checkAnswer(g, room.images[room.currentRound])
              prior == PlayerOf(room, s)
              newStreak == IF quality >= 70 THEN prior.streak + 1 ELSE prior.streak
              rank == Cardinality(ghost.scored) + 1
              unplaced == Award(1000 * room.roundStartTime, 1000 * room.settings.roundTime,
                                quality, newStreak, 4)
              bonus == out'[1].data.points - unplaced
          IN  /\ out'[1].data.position = rank
              /\ ghost'.scored = ghost.scored \cup {s}
              /\ bonus = IF quality < 70 THEN 0
                         ELSE IF rank = 1 THEN 300
                         ELSE IF rank = 2 THEN 150
                         ELSE IF rank = 3 THEN 50 ELSE 0]_vars

\* an exact guess has just been placed second, with +150, behind a guess of
\* quality 0.4 that got no position bonus (400 points at 0 ms)
C12_Witness ==
  /\ room.state = "playing" /\ ghost.starts = 1 /\ room.roundStartTime = 0
  /\ Len(out) = 2 /\ out[1].type = "guess-result" /\ out[1].data.correct
  /\ out[1].data.position = 2 /\ out[1].data.points = 1150
  /\ \E i \in 1..Len(room.players) :
       /\ room.players[i].id # out[1].to
       /\ room.players[i].answers = << [round |-> 1, correct |-> TRUE,
                                        points |-> 400, matchQuality |-> 40] >>

\* the step emitted a hint of this type
EmittedHint(type) ==
  \E k \in 1..Len(out') : out'[k].type = "hint" /\ out'[k].data.type = type

\* C13: in every round the first-letter hint is emitted at most once and only
\* at elapsed >= 0.5 * totalMs, the word-count hint at most once and only at
\* elapsed >= 0.75 * totalMs, and the round closes (round-end) at most once and
\* only at elapsed >= totalMs; when a 4000 ms round closes, both hints have
\* been emitted, the first-letter hint before the word-count hint.
C13_HintsAndCloseOnce ==
  [][/\ EmittedHint("first-letter") =>
          /\ 2 * room.roundStartTime >= room.settings.roundTime
          /\ ghost.round.firstLetter = 0
     /\ EmittedHint("word-count") =>
          /\ 4 * room.roundStartTime >= 3 * room.settings.roundTime
          /\ ghost.round.wordCount = 0
          /\ ghost'.round.firstLetter = 1
     /\ Emitted("round-end") =>
          /\ room.roundStartTime >= room.settings.roundTime
          /\ ghost.round.closes = 0
          /\ room.settings.roundTime = 4 =>
               (ghost.round.firstLetter = 1 /\ ghost.round.wordCount = 1)]_vars

\* C14: a submit-guess for a room that is not in the registry, for a room whose
\* state is not playing, or from a connection that is not a registered player
\* of the room changes nothing (room, players, timers, registry, connections)
\* and emits no event.
C14_IgnoredGuess ==
  [][\A s \in Sockets, r \in RoomIds, g \in Guesses :
       (/\ r \notin rooms \/ room.state # "playing" \/ ~IsPlayer(room, s)
        /\ SubmitGuess(s, r, g))
       => /\ out' = <<>>
          /\ UNCHANGED <<rooms, room, sockets, timers, crashed>>]_vars

\* a round has just closed on a registered player (the advance timer has not
\* run a tick, the room is not expired, every connection is open) and the last
\* step emitted nothing: the step was a guess dropped in state roundResult
C14_Witness ==
  /\ RoomId \in rooms /\ room.state = "roundResult" /\ ~room.expired /\ ~crashed
  /\ IsPlayer(room, 2) /\ \A s \in Sockets : sockets[s].open
  /\ timers # {} /\ \A t \in timers : t.kind = "advance" /\ t.left = AdvanceDelay
  /\ out = <<>>

WrongGuess(s) == [type |-> "guess-result", to |-> s, data |-> [correct |-> FALSE]]

\* C15: a guess of quality 0 from a registered player who has not scored in
\* the open round of a room of the registry is answered with guess-result {correct: false} to the sender
\* and nothing else: no broadcast, and the room (scores, streaks, histories,
\* answered set), the timers, the registry and the connections are unchanged.
\* The state being unchanged, the player may guess again any number of times
\* and a later guess is scored exactly as if the wrong ones had not been sent.
C15_WrongGuessChangesNothing ==
  [][\A s \in Sockets, g \in Guesses :
       (/\ RoomId \in rooms /\ room.state = "playing"
        /\ IsPlayer(room, s) /\ s \notin ghost.scored
        /\ HasCurrentImage(room)
        /\ checkAnswer(g, room.images[room.currentRound]) = 0
        /\ SubmitGuess(s, RoomId, g))
       => /\ out' = <<WrongGuess(s)>>
          /\ UNCHANGED <<rooms, room, sockets, timers, crashed>>]_vars

\* a wrong guess has just been reported to its sender, halfway through the
\* round; the sender has no score and is not in the answered set
C15_Witness ==
  \E s \in Sockets :
    /\ out = <<WrongGuess(s)>>
    /\ room.state = "playing" /\ IsPlayer(room, s) /\ room.roundStartTime >= 2
    /\ PlayerOf(room, s).score = 0 /\ PlayerOf(room, s).answers = <<>>
    /\ s \notin room.roundAnswered

\* the step sent one error event, to connection s, and changed nothing
Rejected(s) ==
  /\ Len(out') = 1 /\ out'[1].type = "error-msg" /\ out'[1].to = s
  /\ UNCHANGED <<rooms, room, sockets, timers, crashed>>

\* the step sent nothing and changed nothing
Dropped ==
  /\ out' = <<>>
  /\ UNCHANGED <<rooms, room, sockets, timers, crashed>>

InvalidHostJoin(s, r, h) == (r \notin rooms \/ room.hostId # h) /\ HostJoin(s, r, h)

InvalidPlayerJoin(s, r) ==
  (r \notin rooms \/ room.state \in {"setup", "finished"}) /\ PlayerJoin(s, r)

\* C16 as stated: a host-join with an unknown room or a wrong credential, a
\* player-join to an unknown room or to a room in setup or finished, and a
\* start-game (from any connection) on a room with zero assets change nothing
\* and send one error event, to the sender.
C16_InvalidRequestGetsError ==
  [][/\ \A s \in Sockets, r \in RoomIds, h \in HostIds :
          InvalidHostJoin(s, r, h) => Rejected(s)
     /\ \A s \in Sockets, r \in RoomIds : InvalidPlayerJoin(s, r) => Rejected(s)
     /\ \A s \in Sockets :
          (RoomId \in rooms /\ Len(room.images) = 0 /\ StartGame(s, RoomId))
            => Rejected(s)]_vars

\* C16, amended: the invalid host-join and player-join requests, and a
\* start-game on a room with zero assets that comes from a connection attached
\* as host, change nothing and send one error event to the sender alone; a
\* start-game on a room with zero assets from a connection that is not attached
\* as host changes nothing and sends nothing, the sender gets no error event.
C16_InvalidRequestRejected ==
  [][/\ \A s \in Sockets, r \in RoomIds, h \in HostIds :
          InvalidHostJoin(s, r, h) => Rejected(s)
     /\ \A s \in Sockets, r \in RoomIds : InvalidPlayerJoin(s, r) => Rejected(s)
     /\ \A s \in Sockets :
          (RoomId \in rooms /\ Len(room.images) = 0 /\ StartGame(s, RoomId))
            => IF sockets[s].isHost THEN Rejected(s) ELSE Dropped]_vars

\* the host's start-game on a room without images has just been refused, with
\* a player waiting in the lobby
C16_Witness ==
  /\ RoomId \in rooms /\ Len(room.images) = 0 /\ room.state = "lobby"
  /\ Len(room.players) = 1 /\ ghost.starts = 0 /\ timers = {}
  /\ \E s \in HostSockets :
       /\ sockets[s].isHost
       /\ out = << [type |-> "error-msg", to |-> s, data |-> "No images uploaded"] >>

\* C17: a start-game that is accepted (the room is in the registry, the sender
\* is attached as host, the room has at least one image) sets totalRounds to
\* the smaller of the configured totalRounds and the number of images, sets
\* the state to playing, and leaves every registered player registered with
\* score 0, streak 0 and an empty answer history.
C17_StartResets ==
  [][\A s \in Sockets :
       (/\ RoomId \in rooms /\ sockets[s].isHost /\ Len(room.images) >= 1
        /\ StartGame(s, RoomId))
       => /\ room'.settings.totalRounds =
               (IF room.settings.totalRounds <= Len(room.images)
                THEN room.settings.totalRounds ELSE Len(room.images))
          /\ room'.state = "playing"
          /\ Len(room'.players) = Len(room.players)
          /\ \A i \in 1..Len(room.players) :
               room'.players[i] = [id |-> room.players[i].id, score |-> 0,
                                   streak |-> 0, answers |-> <<>>]]_vars

\* the host has just started the game a second time, after a round of the
\* first game has closed: two images, totalRounds 1, and the player of the
\* first game is registered with nothing to their name
C17_Witness ==
  /\ ghost.starts = 2 /\ ghost.lastEnded = 1
  /\ Len(out) = 1 /\ out[1].type = "game-started" /\ out[1].data.playerCount = 1
  /\ room.state = "playing" /\ room.currentRound = 0
  /\ Len(room.images) = 2 /\ room.settings.totalRounds = 1
  /\ room.players = << [id |-> 2, score |-> 0, streak |-> 0, answers |-> <<>>] >>

\* the step is the first scored or refused guess g of a registered player in
\* an open round of a room of the registry
Graded(s, g) ==
  /\ RoomId \in rooms /\ room.state = "playing" /\ IsPlayer(room, s)
  /\ s \notin room.roundAnswered /\ HasCurrentImage(room)
  /\ SubmitGuess(s, RoomId, g)

\* the quality the step logged for the guess of s: that of the new history
\* entry, 0 when the guess was reported wrong and nothing was logged
LoggedQuality(s) ==
  IF out' = <<WrongGuess(s)>> /\ room' = room THEN 0
  ELSE IF Len(PlayerOf(room', s).answers) = Len(PlayerOf(room, s).answers) + 1
       THEN PlayerOf(room', s).answers[Len(PlayerOf(room', s).answers)].matchQuality
       ELSE -1

\* C18 as stated: "Eifel Toer" against "Eiffel Tower" is graded 0.9, the edit
\* distance of the normalized strings being at most 0.15 of the longer one.
C18_EifelToerVeryClose ==
  [][\A s \in Sockets :
       (room.images = <<eiffelTower>> /\ Graded(s, eifelToer))
       => /\ LoggedQuality(s) = 90
          /\ 100 * levenshtein(normalize(eifelToer), normalize(eiffelTower))
               <= 15 * Max2(Len(normalize(eifelToer)), Len(normalize(eiffelTower)))]_vars

\* C18, amended: "Eifel Toer" against "Eiffel Tower" is graded 0.8: the
\* normalized strings have 10 and 12 characters and edit distance 2, the ratio
\* 2/12 is above 0.15 and at most 0.25, the rung of 0.8.
C18_EifelToerClose ==
  [][\A s \in Sockets :
       (room.images = <<eiffelTower>> /\ Graded(s, eifelToer))
       => /\ LoggedQuality(s) = 80
          /\ Len(normalize(eifelToer)) = 10 /\ Len(normalize(eiffelTower)) = 12
          /\ levenshtein(normalize(eifelToer), normalize(eiffelTower)) = 2
          /\ 100 * 2 > 15 * 12 /\ 100 * 2 <= 25 * 12]_vars

\* the player's guess on "Eiffel Tower" has just been logged with quality 0.8
\* (at 0 ms, first: 800 + 300 points)
C18_Witness ==
  /\ room.images = <<eiffelTower>> /\ room.state = "playing"
  /\ Len(out) = 2 /\ out[1].type = "guess-result" /\ out[1].data.points = 1100
  /\ room.players = << [id |-> 2, score |-> 1100, streak |-> 1,
                        answers |-> << [round |-> 1, correct |-> TRUE,
                                        points |-> 1100, matchQuality |-> 80] >>] >>

\* C19 as stated: a guess whose normalized form equals that of the answer is
\* graded 1.0, and so is "The Eiffel Tower" against "eiffel tower".
C19_EqualNormalizedIsExact ==
  [][\A s \in Sockets, g \in MatchGuesses :
       /\ (normalize(g) = normalize(room.images[1]) /\ Graded(s, g))
            => LoggedQuality(s) = 100
       /\ (room.images = <<eiffelTowerLower>> /\ Graded(s, theEiffelTower))
            => LoggedQuality(s) = 100]_vars

\* C19, amended: a guess whose normalized form equals that of the answer and
\* is not empty is graded 1.0 ("EIFFEL  TOWER!" against "Eiffel Tower" and
\* against "eiffel tower"); when both normalized forms are empty ("!?" against
\* "?!") the guess is graded 0; "The Eiffel Tower" against "eiffel tower" is
\* graded 1.0.
C19_EqualNonEmptyIsExact ==
  [][\A s \in Sockets, g \in MatchGuesses :
       /\ (normalize(g) = normalize(room.images[1]) /\ Graded(s, g))
            => LoggedQuality(s) = (IF normalize(g) = <<>> THEN 0 ELSE 100)
       /\ (room.images[1] \in {eiffelTower, eiffelTowerLower} /\ Graded(s, eiffelTowerLoud))
            => LoggedQuality(s) = 100
       /\ (room.images = <<punctuation>> /\ Graded(s, <<"!","?">>))
            => LoggedQuality(s) = 0
       /\ (room.images = <<eiffelTowerLower>> /\ Graded(s, theEiffelTower))
            => LoggedQuality(s) = 100]_vars

\* the player's guess on "eiffel tower" has just been logged as exact, a tick
\* into the round (550 + 300 points)
C19_Witness ==
  /\ room.images = <<eiffelTowerLower>> /\ room.state = "playing"
  /\ room.roundStartTime = 1
  /\ Len(out) = 2 /\ out[1].type = "guess-result" /\ out[1].data.points = 850
  /\ room.players = << [id |-> 2, score |-> 850, streak |-> 1,
                        answers |-> << [round |-> 1, correct |-> TRUE,
                                        points |-> 850, matchQuality |-> 100] >>] >>

\* the step is a timer callback
TimerCallback ==
  \E t \in timers : FireStart(t) \/ FireAdvance(t) \/ FireHint(t) \/ FireEnd(t)

\* C20: the eviction of a room leaves none of its timers pending (round-close,
\* round-advance, hint, delayed first-round start), and once the room is out of
\* the registry no timer callback emits an event or changes the room.
C20_EvictionCancelsTimers ==
  [][/\ (RoomId \in rooms /\ RoomId \notin rooms') => timers' = {}
     /\ (RoomId \notin rooms /\ TimerCallback) => (out' = <<>> /\ room' = room)]_vars

\* the edges of the room state machine
StateEdges ==
  { <<"setup", "lobby">>, <<"lobby", "playing">>, <<"playing", "roundResult">>,
    <<"roundResult", "playing">>, <<"roundResult", "finished">>,
    <<"playing", "finished">> }

\* C21: every change of room.state is one of the edges setup->lobby,
\* lobby->playing, playing->roundResult, roundResult->playing,
\* roundResult->finished, playing->finished; no step (the host attaching again
\* included) takes a room in playing, roundResult or finished to lobby or setup.
C21_StateEdges ==
  [][/\ room'.state # room.state => <<room.state, room'.state>> \in StateEdges
     /\ room.state \in {"playing", "roundResult", "finished"}
          => room'.state \notin {"lobby", "setup"}]_vars

\* the step broadcast an event of this type to the room
Broadcast(type) == \E k \in 1..Len(out') : out'[k].type = type /\ out'[k].to = ToRoom

\* C22: after an accepted start-game on a room with at least one image, with
\* timers that fire and a host who issues no further command, the rounds
\* 1..totalRounds are each started and closed exactly once, in increasing
\* order, and the room reaches finished, whatever joins, guesses and
\* disconnects come in between: a round starts only as the successor of a
\* round that has closed once (or as round 1), a round closes only while it is
\* open and has not closed, the room becomes finished only after round
\* totalRounds has closed once, and finished is reached.
C22_RoundsRunToFinish ==
  /\ [][/\ Broadcast("round-start") =>
             /\ room'.currentRound = room.currentRound + 1
             /\ room'.currentRound \in 1..room.settings.totalRounds
             /\ \/ room.currentRound = 0
                \/ room.state = "roundResult" /\ ghost.round.closes = 1
        /\ Broadcast("round-end") =>
             /\ room.state = "playing" /\ ghost.round.closes = 0
             /\ room.currentRound \in 1..room.settings.totalRounds
        /\ (ghost.starts > 0 /\ room.state # "finished" /\ room'.state = "finished") =>
             /\ room.currentRound = room.settings.totalRounds
             /\ room.state = "roundResult" /\ ghost.round.closes = 1]_vars
  /\ \A n \in 1..MaxStarts :
       (ghost.starts = n) ~> (ghost.starts # n \/ room.state = "finished")

\* the sequence 1, 2, ..., n
UpTo(n) == [k \in 1..n |-> k]

\* the last step accepted a guess (scored it and reported a position)
Accepted ==
  /\ Len(out) = 2 /\ out[1].type = "guess-result"
  /\ "position" \in DOMAIN out[1].data

\* C23: within one round of one game the accepted guesses (quality > 0) are
\* assigned the positions 1, 2, 3, ... in the order of their acceptance: the
\* positions assigned since the round started are 1..n with n the size of the
\* answered set, so no position is assigned twice in a round, and the position
\* reported for a guess is the size of the answered set before its insertion
\* plus one.
C23_PositionsInOrder ==
  /\ ghost.positions = UpTo(Cardinality(room.roundAnswered))
  /\ Accepted =>
       /\ out[1].to \in room.roundAnswered
       /\ out[1].data.position = Cardinality(room.roundAnswered \ {out[1].to}) + 1
       /\ out[1].data.position = ghost.positions[Len(ghost.positions)]

\* two players have been accepted in the same round, at the same millisecond:
\* the second guess has just been reported position 2
C23_Witness ==
  /\ Accepted /\ out[1].data.position = 2
  /\ room.state = "playing" /\ room.roundStartTime = 0
  /\ ghost.positions = <<1, 2>>
  /\ Cardinality(room.roundAnswered) = 2 /\ Len(room.players) = 2

\* C24: the close of a round cancels the hint timer of that round: when
\* round-end is emitted, the hint interval that the round's start armed is no
\* longer pending; no hint of a round is emitted after the round has closed;
\* and no hint is emitted while the state of the room is not playing.
C24_CloseCancelsHints ==
  [][/\ Broadcast("round-end") =>
          ~\E h \in timers' : h.kind = "hint" /\ h.id = ghost.round.hint
     /\ \A t \in timers :
          (FireHint(t) /\ Emitted("hint")) =>
            ~(t.id = ghost.round.hint /\ ghost.round.closes > 0)
     /\ Emitted("hint") => room.state = "playing"]_vars

\* C25: the images and the settings (roundTime, totalRounds) of a room change
\* only while its state is setup or lobby: in playing, roundResult and
\* finished no step changes them, but for start-game lowering totalRounds to
\* the number of images.
C25_FrozenOncePlaying ==
  [][room.state \in {"playing", "roundResult", "finished"} =>
       /\ room'.images = room.images
       /\ room'.settings.roundTime = room.settings.roundTime
       /\ \/ room'.settings.totalRounds = room.settings.totalRounds
          \/ /\ \E s \in Sockets : StartGame(s, RoomId)
             /\ room'.settings.totalRounds = Min2(room.settings.totalRounds, Len(room.images))]_vars

\* connection s is attached to the room as its host
AttachedAsHost(s) == sockets[s].isHost /\ sockets[s].roomId = RoomId

\* C26: start-game takes effect on the room only when it comes from the
\* connection that attached to the room as host with the room's credential; a
\* start-game for the room from any other connection (a player, a connection
\* that is host of a different room) leaves the room unchanged: its fields,
\* its timers, and no event goes to the room.
C26_OnlyOwnHostStarts ==
  [][\A s \in Sockets :
       (RoomId \in rooms /\ ~AttachedAsHost(s) /\ StartGame(s, RoomId))
       => /\ room' = room /\ timers' = timers
          /\ \A k \in 1..Len(out') : out'[k].to # ToRoom]_vars

\* the types of the hints whose threshold has elapsed
HintsDue(elapsedMs, totalMs) ==
  (IF 2 * elapsedMs >= totalMs THEN <<"first-letter">> ELSE <<>>)
    \o (IF 4 * elapsedMs >= 3 * totalMs THEN <<"word-count">> ELSE <<>>)

\* C27: a player who joins while a round is active (state playing, round
\* index at least 1) is sent a round-start event for the current round with
\* remaining time max(0, totalMs - elapsed) and with exactly the hints whose
\* threshold has elapsed (first-letter iff elapsed >= 0.5 * totalMs, word-count
\* iff elapsed >= 0.75 * totalMs); the list holds every hint that was
\* broadcast to the room since the round started.
C27_LateJoinerCatchesUp ==
  [][\A s \in Sockets :
       (/\ RoomId \in rooms /\ room.state = "playing" /\ room.currentRound >= 1
        /\ PlayerJoin(s, RoomId))
       => LET elapsedMs == 1000 * room.roundStartTime
              totalMs == 1000 * room.settings.roundTime
          IN  \E k \in 1..Len(out') :
                /\ out'[k].type = "round-start" /\ out'[k].to = s
                /\ out'[k].data.round = room.currentRound
                /\ 1000 * out'[k].data.timeRemaining =
                     (IF totalMs - elapsedMs > 0 THEN totalMs - elapsedMs ELSE 0)
                /\ out'[k].data.hint = HintsDue(elapsedMs, totalMs)
                /\ ghost.round.firstLetter > 0 => "first-letter" \in Range(out'[k].data.hint)
                /\ ghost.round.wordCount > 0 => "word-count" \in Range(out'[k].data.hint)]_vars

\* the last step emitted game-over
GameOver == \E k \in 1..Len(out) : out[k].type = "game-over"
Ranking == (CHOOSE e \in Range(out) : e.type = "game-over").data

\* C28: the ranking of game-over lists the registered players, each once and
\* with their score, in descending order of score, players of equal score in
\* the order of their registration, which is the order of the running
\* leaderboard (getPlayerList); the winner is the first entry, a player of
\* maximal score, or none when the room has no player.
C28_FinalRanking ==
  GameOver =>
    LET players == Ranking.players
        n == Len(players)
    IN  /\ n = Len(room.players)
        /\ \A i \in 1..n :
             /\ IsPlayer(room, players[i].id)
             /\ players[i].score = PlayerOf(room, players[i].id).score
        /\ \A i, j \in 1..n :
             i < j =>
               /\ players[i].id # players[j].id
               /\ players[i].score >= players[j].score
               /\ players[i].score = players[j].score =>
                    PlayerIndex(room, players[i].id) < PlayerIndex(room, players[j].id)
        /\ players = getPlayerList(room)
        /\ IF n = 0 THEN Ranking.winner = NoSocket
           ELSE /\ Ranking.winner = players[1].id
                /\ \A i \in 1..Len(room.players) :
                     PlayerOf(room, Ranking.winner).score >= room.players[i].score

\* game-over has just ranked two players of equal, positive score: the one who
\* registered first (connection 3) is the winner, ahead of connection 2
C28_Witness ==
  /\ GameOver /\ room.state = "finished" /\ Len(room.players) = 2
  /\ room.players[1].id = 3 /\ room.players[2].id = 2
  /\ room.players[1].score > 0 /\ room.players[1].score = room.players[2].score
  /\ Ranking.winner = 3
  /\ Ranking.players[1].id = 3 /\ Ranking.players[2].id = 2

\* the pending timers of these kinds
Pending(kinds) == {t \in timers : t.kind \in kinds}

\* C29: at any time at most one round-close or round-advance timer and at most
\* one hint timer is pending for the room, also after start-game was issued
\* again while a game was running; a round is closed only by the close timer of
\* its own start (the one room.roundTimer names), and a hint is emitted only by
\* the hint interval of the latest round start.
C29_OneTimerPerRoom ==
  /\ [](/\ Cardinality(Pending({"end", "advance"})) <= 1
        /\ Cardinality(Pending({"hint"})) <= 1)
  /\ [][\A t \in timers :
          /\ (FireEnd(t) /\ Broadcast("round-end")) => t.id = room.roundTimer
          /\ (FireHint(t) /\ Emitted("hint")) => t.id = ghost.round.hint]_vars

=============================================================================
